---- MODULE Spec2Model ----
(***************************************************************************)
(* Event Processor Lambda (packages/lambda/event-processor/index.ts).      *)
(*                                                                         *)
(* Each worker runs one invocation of `handler` on one Firehose batch.     *)
(* Every `await` of the source is one step of a worker, so that the store  *)
(* operations of concurrent invocations interleave exactly where the       *)
(* source yields.  The store (`db`, the Prisma client) is a record of      *)
(* tables; a table with generated row ids is a sequence of rows, the id of *)
(* a row being its position.  Rows carry the fields that some modelled     *)
(* operation reads or that identify the row; free-form columns (pageUrl,   *)
(* eventData, message, details, expiresAt, device classification) are not  *)
(* part of the rows.                                                       *)
(***************************************************************************)
EXTENDS Integers, Sequences, FiniteSets, TLC

\* ------------------------------------------------------------------ bounds
MaxRecords == 2        \* records of the batch a lone worker is invoked on
MaxEvents == 2         \* events that the records of one behaviour decode to
MaxNow == 1            \* last instant the wall clock reaches
MaxFaults == 1         \* storage operations that fail in one behaviour
MaxTokens == 3         \* tokens of a user agent string

\* The length of a calendar day, in the unit of the instants of the model.
DayLen == 2

Workers == {"w1", "w2"}
Null == "null"

\* ------------------------------------------------------------------ inputs
ExperimentIds == {"e1"}
VariantIds == {"A", "B"}
TzOffsets == {0, 1}

\* An ISO-8601 timestamp: a local wall time and the offset of that local time
\* from UTC.
T1 == [wall |-> 0, off |-> 1]
T2 == [wall |-> 0, off |-> 0]

\* new Date(evt.timestamp): the instant the timestamp denotes.
ToInstant(ts) == ts.wall - ts.off

Attr(e, v) == [experimentId |-> e, variantId |-> v]

\* An optional field that is no identifier (a number, a list): absent, or present
\* with a content.
None == <<>>
Some(x) == <<x>>

BaseEvent(type, ts) ==
    [projectId |-> "p1", visitorId |-> "v1", eventType |-> type, timestamp |-> ts,
     experimentId |-> Null, variantId |-> Null, goalId |-> Null,
     attributedExperiments |-> None, value |-> None]

View(ts, variantId) ==
    [BaseEvent("EXPERIMENT_VIEW", ts) EXCEPT !.experimentId = "e1",
                                             !.variantId = variantId]

ViewEvents ==
    {View(T1, "A"), View(T2, "A"), View(T1, "B"), View(T1, Null),
     [View(T1, "A") EXCEPT !.experimentId = Null]}

Conversion(goalId, attributed, value) ==
    [BaseEvent("GOAL_CONVERSION", T1) EXCEPT !.goalId = goalId,
                                             !.attributedExperiments = attributed,
                                             !.value = value]

ConversionEvents ==
    {Conversion("g1", Some(<<Attr("e1", "A")>>), Some(3)),
     Conversion("g1", Some(<<Attr("e1", "A"), Attr("e1", "A")>>), None),
     Conversion("g1", Some(<<Attr("e1", "A"), Attr("e1", "B")>>), None),
     Conversion("g1", Some(<<Attr("e1", "A")>>), Some(-1)),
     Conversion("g2", Some(<<Attr("e1", "A")>>), None),
     Conversion("g1", Some(<<>>), None),
     Conversion("g1", None, None),
     Conversion(Null, Some(<<Attr("e1", "A")>>), None)}

OtherEvents ==
    {BaseEvent("SESSION_START", T2),
     [BaseEvent("CUSTOM_EVENT", T1) EXCEPT
        !.attributedExperiments = Some(<<Attr("e1", "B")>>)],
     BaseEvent("CLICK", T1)}

InvalidEvents ==
    {[BaseEvent("CLICK", T1) EXCEPT !.projectId = Null],
     [BaseEvent("EXPERIMENT_VIEW", T1) EXCEPT !.visitorId = Null,
                                              !.experimentId = "e1",
                                              !.variantId = "A"],
     BaseEvent(Null, T1)}

Events == ViewEvents \cup ConversionEvents \cup OtherEvents \cup InvalidEvents

\* The body of a record: text that is no JSON, one JSON object, or a JSON array.
Garbage == [kind |-> "garbage", val |-> <<>>]
Bodies ==
    {Garbage}
    \cup {[kind |-> "object", val |-> <<e>>] : e \in ViewEvents}
    \cup {[kind |-> "array", val |-> s] :
            s \in UNION {[1..n -> Events] : n \in 0..MaxEvents}}

\* The bodies delivered to concurrent invocations: one event each, of the kinds
\* that write to rows another invocation may be writing to.
ConcurrentEvents ==
    {View(T1, "A"), View(T1, "B"),
     Conversion("g1", Some(<<Attr("e1", "A")>>), Some(3)),
     BaseEvent("SESSION_START", T2)}
    \cup {e \in OtherEvents : e.eventType # "SESSION_START"}

ConcurrentBodies ==
    {Garbage} \cup {[kind |-> "array", val |-> <<e>>] : e \in ConcurrentEvents}

\* A user agent string, as the sequence of the tokens it is made of: the tokens
\* that detectBrowser looks for, and one that it does not look for.
UserAgentTokens == {"Chrome", "Edg", "Firefox", "Safari", "Opera", "OPR", "Mozilla"}
UserAgents == UNION {[1..n -> UserAgentTokens] : n \in 0..MaxTokens}

\* ------------------------------------------------------------------ state
\* db        the store: one field per table
\* now       the last value read from the wall clock (new Date())
\* tz        the offset of the process's local time from UTC
\* faults    storage operations that have failed so far
\* drawn     events that the records read so far decode to
\* inputs    which record bodies the transport may deliver: "any", or "single"
\*           (the one-event bodies of ConcurrentBodies)
\* batchLen  per worker, the number of records of the batch it was invoked on
\* records   per worker, the records of its batch read so far
\* output    per worker, the `output` array of its invocation
\* loc       per worker, the position and the locals of its invocation
\* snap      per worker, the store and the count of failed operations as they were
\*           when processEvent was called on the current event
\* userAgent the user agent string handed to detectBrowser
\* browser   what detectBrowser returned for it, Null before the call
VARIABLES db, now, tz, faults, drawn, inputs, batchLen, records, output, loc, snap,
          userAgent, browser

vars == <<db, now, tz, faults, drawn, inputs, batchLen, records, output, loc, snap,
          userAgent, browser>>

\* The record bodies that the transport may deliver.
Deliverable == IF inputs = "any" THEN Bodies ELSE ConcurrentBodies

\* ------------------------------------------------------------------ store
\* Seed rows: the experiment, its variants and its goal pairing exist before any
\* event arrives.
ExperimentGoalPairs == {<<"e1", "g1">>}

EmptyDb ==
    [visitor |-> <<>>,
     event |-> <<>>,
     variantAssignment |-> <<>>,
     goalConversion |-> <<>>,
     liveLog |-> <<>>,
     experimentDailyStat |-> <<>>,
     variant |-> [v \in VariantIds |-> [visitors |-> 0, conversions |-> 0]],
     experiment |-> [e \in ExperimentIds |-> [totalVisitors |-> 0, totalConversions |-> 0]],
     experimentGoal |-> [p \in ExperimentGoalPairs |-> [conversions |-> 0]]]

\* The id of the Visitor row of the key (projectId, visitorId), 0 when none.
VisitorId(d, projectId, visitorId) ==
    LET IsKey(r) == r.projectId = projectId /\ r.visitorId = visitorId
        m == {i \in 1..Len(d.visitor) : IsKey(d.visitor[i])}
    IN  IF m = {} THEN 0 ELSE CHOOSE i \in m : \A j \in m : i <= j

\* Mutant of VisitorUpsert: the update branch increments visitCount as well.
VisitorUpsertCountsVisit(d, evt) ==
    LET id == VisitorId(d, evt.projectId, evt.visitorId)
    IN  IF id = 0
        THEN [d EXCEPT !.visitor = Append(@,
                [projectId |-> evt.projectId,
                 visitorId |-> evt.visitorId,
                 firstSeen |-> ToInstant(evt.timestamp),
                 lastSeen |-> ToInstant(evt.timestamp),
                 visitCount |-> 1,
                 pageViews |-> 1])]
        ELSE [d EXCEPT !.visitor[id].lastSeen = ToInstant(evt.timestamp),
                       !.visitor[id].pageViews = @ + 1,
                       !.visitor[id].visitCount = @ + 1]

\* db.visitor.upsert of upsertVisitor.
VisitorUpsert(d, evt) ==
    LET id == VisitorId(d, evt.projectId, evt.visitorId)
    IN  IF id = 0
        THEN [d EXCEPT !.visitor = Append(@,
                [projectId |-> evt.projectId,
                 visitorId |-> evt.visitorId,
                 firstSeen |-> ToInstant(evt.timestamp),
                 lastSeen |-> ToInstant(evt.timestamp),
                 visitCount |-> 1,
                 pageViews |-> 1])]
        ELSE [d EXCEPT !.visitor[id].lastSeen = ToInstant(evt.timestamp),
                       !.visitor[id].pageViews = @ + 1]

\* db.visitor.update of handleSessionStart.
VisitorIncrementVisitCount(d, id) ==
    [d EXCEPT !.visitor[id].visitCount = @ + 1]

\* Mutant of EventCreate: one Event row per visitor, rewritten by each event.
EventCreateOrReplace(d, projectId, visitorDbId, experimentId, variantId, eventType) ==
    LET row == [projectId |-> projectId, visitorId |-> visitorDbId,
                experimentId |-> experimentId, variantId |-> variantId,
                eventType |-> eventType]
        own == {i \in 1..Len(d.event) : d.event[i].visitorId = visitorDbId}
    IN  IF own = {}
        THEN [d EXCEPT !.event = Append(@, row)]
        ELSE [d EXCEPT !.event = [i \in 1..Len(@) |-> IF i \in own THEN row ELSE @[i]]]

\* db.event.create.
EventCreate(d, projectId, visitorDbId, experimentId, variantId, eventType) ==
    [d EXCEPT !.event = Append(@,
        [projectId |-> projectId, visitorId |-> visitorDbId,
         experimentId |-> experimentId, variantId |-> variantId,
         eventType |-> eventType])]

\* db.variantAssignment.findUnique by visitorId_experimentId: is there a row?
AssignmentExists(d, visitorDbId, experimentId) ==
    \E i \in 1..Len(d.variantAssignment) :
        /\ d.variantAssignment[i].visitorId = visitorDbId
        /\ d.variantAssignment[i].experimentId = experimentId

\* Mutant of AssignmentCreateAllowed: the table has no unique key.
AssignmentCreateAlwaysAllowed(d, visitorDbId, experimentId) == TRUE

\* The unique key visitorId_experimentId that findUnique selects by: the store
\* refuses a second row of the key.
AssignmentCreateAllowed(d, visitorDbId, experimentId) ==
    ~AssignmentExists(d, visitorDbId, experimentId)

\* db.variantAssignment.create.
AssignmentCreate(d, visitorDbId, experimentId, variantId) ==
    [d EXCEPT !.variantAssignment = Append(@,
        [visitorId |-> visitorDbId, experimentId |-> experimentId,
         variantId |-> variantId])]

\* db.variant.update({ visitors: { increment: 1 } }).
VariantIncrementVisitors(d, variantId) ==
    [d EXCEPT !.variant[variantId].visitors = @ + 1]

\* db.experiment.update({ totalVisitors: { increment: 1 } }).
ExperimentIncrementVisitors(d, experimentId) ==
    [d EXCEPT !.experiment[experimentId].totalVisitors = @ + 1]

\* db.variant.update({ conversions: { increment: 1 } }).
VariantIncrementConversions(d, variantId) ==
    [d EXCEPT !.variant[variantId].conversions = @ + 1]

\* db.experiment.update({ totalConversions: { increment: 1 } }).
ExperimentIncrementConversions(d, experimentId) ==
    [d EXCEPT !.experiment[experimentId].totalConversions = @ + 1]

\* db.experimentGoal.updateMany: every pairing of the key, none when none matches.
ExperimentGoalIncrement(d, experimentId, goalId) ==
    LET old == d.experimentGoal
    IN  [d EXCEPT !.experimentGoal = [p \in DOMAIN old |->
            IF p = <<experimentId, goalId>>
            THEN [conversions |-> old[p].conversions + 1]
            ELSE old[p]]]

\* The truthiness of an optional number: value || null, revenue || 0, revenue &&.
Truthy(value) == value # None /\ value[1] # 0

\* db.goalConversion.create: value || null, currency || "TRY".
GoalConversionCreate(d, goalId, experimentId, variantId, visitorDbId, value) ==
    [d EXCEPT !.goalConversion = Append(@,
        [goalId |-> goalId, experimentId |-> experimentId, variantId |-> variantId,
         visitorId |-> visitorDbId,
         value |-> IF Truthy(value) THEN value ELSE None,
         currency |-> "TRY"])]

\* db.liveLog.create.
LiveLogCreate(d, experimentId, visitorId, variantId, logType) ==
    [d EXCEPT !.liveLog = Append(@,
        [experimentId |-> experimentId, visitorId |-> visitorId,
         variantId |-> variantId, logType |-> logType])]

\* today = new Date(); today.setHours(0, 0, 0, 0): local midnight of the day of
\* the instant t, as an instant.
LocalMidnight(t, offset) == ((t + offset) \div DayLen) * DayLen - offset

\* The instant at which the UTC calendar day of the instant t begins.
UtcDay(t) == (t \div DayLen) * DayLen

\* The position of the ExperimentDailyStat row of the key experimentId_date.
DailyStatId(d, experimentId, date) ==
    LET IsKey(r) == r.experimentId = experimentId /\ r.date = date
        m == {i \in 1..Len(d.experimentDailyStat) : IsKey(d.experimentDailyStat[i])}
    IN  IF m = {} THEN 0 ELSE CHOOSE i \in m : \A j \in m : i <= j

\* db.experimentDailyStat.upsert of updateDailyStat.
DailyStatUpsert(d, experimentId, date, field, revenue) ==
    LET id == DailyStatId(d, experimentId, date)
    IN  IF id = 0
        THEN [d EXCEPT !.experimentDailyStat = Append(@,
                [experimentId |-> experimentId,
                 date |-> date,
                 impressions |-> IF field = "impressions" THEN 1 ELSE 0,
                 conversions |-> IF field = "conversions" THEN 1 ELSE 0,
                 revenue |-> IF Truthy(revenue) THEN revenue[1] ELSE 0])]
        ELSE [d EXCEPT
                !.experimentDailyStat[id].impressions =
                    IF field = "impressions" THEN @ + 1 ELSE @,
                !.experimentDailyStat[id].conversions =
                    IF field = "conversions" THEN @ + 1 ELSE @,
                !.experimentDailyStat[id].revenue =
                    IF Truthy(revenue) /\ field = "conversions"
                    THEN @ + revenue[1] ELSE @]

\* ------------------------------------------------------------------ handler
\* Mutant of Decodes: the catch around JSON.parse is gone and any text is taken
\* as an empty list of events.
DecodesAnything(data) == TRUE

\* JSON.parse(payload), then Array.isArray(parsed) ? parsed : [parsed].
Decodes(data) == data.kind # "garbage"
Decode(data) == data.val

Idle ==
    [pc |-> "loop", events |-> <<>>, ei |-> 0, results |-> <<>>,
     visitor |-> 0, existingAssignment |-> FALSE, ai |-> 0]

\* Mutant of Evt: the events of a record are taken from the last to the first.
EvtFromEnd(w) == loc[w].events[Len(loc[w].events) - loc[w].ei + 1]

\* The event a worker is processing, or has just finished.
Evt(w) == loc[w].events[loc[w].ei]

\* Mutant of Push: unshift in place of push.
PushFront(out, record, result) ==
    <<[recordId |-> record.recordId, result |-> result, data |-> record.data]>> \o out

\* output.push({ recordId: record.recordId, result, data: record.data })
Push(out, record, result) ==
    Append(out, [recordId |-> record.recordId, result |-> result, data |-> record.data])

\* The for-of loop of handler reads the next record of the batch and decodes it.
ReadRecord(w) ==
    /\ loc[w].pc = "loop"
    /\ Len(records[w]) < batchLen[w]
    /\ \E data \in Deliverable :
        LET record == [recordId |-> Len(records[w]) + 1, data |-> data]
        IN  /\ drawn + Len(data.val) <= MaxEvents
            /\ drawn' = drawn + Len(data.val)
            /\ records' = [records EXCEPT ![w] = Append(@, record)]
            /\ IF Decodes(data)
               THEN /\ loc' = [loc EXCEPT ![w] = [Idle EXCEPT
                                !.pc = "events", !.events = Decode(data)]]
                    /\ UNCHANGED output
               ELSE /\ output' = [output EXCEPT ![w] =
                                Push(@, record, "ProcessingFailed")]
                    /\ UNCHANGED loc
    /\ UNCHANGED <<userAgent, browser, db, now, tz, faults, inputs, batchLen, snap>>

\* The batch is exhausted: handler returns { records: output }.
Return(w) ==
    /\ loc[w].pc = "loop"
    /\ Len(records[w]) = batchLen[w]
    /\ loc' = [loc EXCEPT ![w].pc = "done"]
    /\ UNCHANGED <<userAgent, browser, db, now, tz, faults, drawn, inputs, batchLen, records, output, snap>>

\* Mutant of MissingRequired: visitorId is not among the fields tested.
MissingRequiredBarVisitorId(evt) ==
    evt.projectId = Null \/ evt.eventType = Null

\* if (!projectId || !visitorId || !eventType) return;
MissingRequired(evt) ==
    evt.projectId = Null \/ evt.visitorId = Null \/ evt.eventType = Null

\* Mutant of NextEvent: a record one of whose events was thrown to the catch is
\* pushed as "ProcessingFailed".
NextEventFailsRecord(w) ==
    /\ loc[w].pc = "events"
    /\ IF loc[w].ei = Len(loc[w].events)
       THEN /\ output' = [output EXCEPT ![w] =
                    Push(@, records[w][Len(records[w])],
                         IF \E i \in 1..Len(loc[w].results) :
                                loc[w].results[i] \in {"thrown", "refused"}
                         THEN "ProcessingFailed" ELSE "Ok")]
            /\ loc' = [loc EXCEPT ![w].pc = "loop"]
            /\ UNCHANGED snap
       ELSE LET evt == loc[w].events[loc[w].ei + 1]
            IN  /\ loc' = [loc EXCEPT
                        ![w].ei = @ + 1,
                        ![w].pc = IF MissingRequired(evt) THEN "events"
                                  ELSE "upsertVisitor",
                        ![w].results = IF MissingRequired(evt)
                                       THEN Append(@, "dropped") ELSE @,
                        ![w].visitor = 0,
                        ![w].existingAssignment = FALSE,
                        ![w].ai = 0]
                /\ snap' = [snap EXCEPT ![w] = [db |-> db, faults |-> faults]]
                /\ UNCHANGED output
    /\ UNCHANGED <<userAgent, browser, db, now, tz, faults, drawn, inputs, batchLen, records>>

\* The inner loop of handler: the record is pushed as "Ok" when its events are
\* exhausted; otherwise processEvent is called on the next one, which returns at
\* once when a required field is missing.
NextEvent(w) ==
    /\ loc[w].pc = "events"
    /\ IF loc[w].ei = Len(loc[w].events)
       THEN /\ output' = [output EXCEPT ![w] =
                    Push(@, records[w][Len(records[w])], "Ok")]
            /\ loc' = [loc EXCEPT ![w].pc = "loop"]
            /\ UNCHANGED snap
       ELSE LET evt == loc[w].events[loc[w].ei + 1]
            IN  /\ loc' = [loc EXCEPT
                        ![w].ei = @ + 1,
                        ![w].pc = IF MissingRequired(evt) THEN "events"
                                  ELSE "upsertVisitor",
                        ![w].results = IF MissingRequired(evt)
                                       THEN Append(@, "dropped") ELSE @,
                        ![w].visitor = 0,
                        ![w].existingAssignment = FALSE,
                        ![w].ai = 0]
                /\ snap' = [snap EXCEPT ![w] = [db |-> db, faults |-> faults]]
                /\ UNCHANGED output
    /\ UNCHANGED <<userAgent, browser, db, now, tz, faults, drawn, inputs, batchLen, records>>

\* processEvent is over and the loop of handler goes on; `how` records the way it
\* ended: "returned", or thrown to the catch by a failed operation ("thrown") or by
\* the store refusing a row ("refused").
Finish(l, how) == [l EXCEPT !.pc = "events", !.results = Append(@, how)]

\* Mutant of Caught: the try is around the loop, not inside it, and an error ends
\* the events of the record.
CaughtOutsideLoop(l, how) ==
    [l EXCEPT !.pc = "events", !.ei = Len(l.events), !.results = Append(@, how)]

\* catch (err) { console.error("Event processing error:", err, evt); } around
\* processEvent: the loop goes on with the next event.
Caught(l, how) == Finish(l, how)

\* Mutant of Dispatch: handleGoalConversion does not test goalId.
DispatchWithoutGoalTest(l, evt) ==
    CASE evt.eventType = "SESSION_START" -> [l EXCEPT !.pc = "ss_visit"]
      [] evt.eventType = "EXPERIMENT_VIEW" ->
            IF evt.experimentId = Null \/ evt.variantId = Null
            THEN Finish(l, "returned")
            ELSE [l EXCEPT !.pc = "ev_find"]
      [] evt.eventType = "GOAL_CONVERSION" ->
            IF \/ evt.attributedExperiments = None
               \/ Len(evt.attributedExperiments[1]) = 0
            THEN Finish(l, "returned")
            ELSE [l EXCEPT !.pc = "gc_conversion", !.ai = 1]
      [] evt.eventType = "CUSTOM_EVENT" -> [l EXCEPT !.pc = "ce_event"]
      [] OTHER -> [l EXCEPT !.pc = "ge_event"]

\* Mutant of Dispatch: the switch has no default of its own, and an event of any
\* other type is handed to handleCustomEvent.
DispatchOthersAsCustom(l, evt) ==
    CASE evt.eventType = "SESSION_START" -> [l EXCEPT !.pc = "ss_visit"]
      [] evt.eventType = "EXPERIMENT_VIEW" ->
            IF evt.experimentId = Null \/ evt.variantId = Null
            THEN Finish(l, "returned")
            ELSE [l EXCEPT !.pc = "ev_find"]
      [] evt.eventType = "GOAL_CONVERSION" ->
            IF \/ evt.goalId = Null
               \/ evt.attributedExperiments = None
               \/ Len(evt.attributedExperiments[1]) = 0
            THEN Finish(l, "returned")
            ELSE [l EXCEPT !.pc = "gc_conversion", !.ai = 1]
      [] OTHER -> [l EXCEPT !.pc = "ce_event"]

\* Mutant of Dispatch: the test of handleExperimentView guards the assignment and
\* the counters only, and a view without experimentId or variantId is still
\* recorded as an Event row and a LiveLog row.
DispatchRecordsUntrackedViews(l, evt) ==
    CASE evt.eventType = "SESSION_START" -> [l EXCEPT !.pc = "ss_visit"]
      [] evt.eventType = "EXPERIMENT_VIEW" ->
            IF evt.experimentId = Null \/ evt.variantId = Null
            THEN [l EXCEPT !.pc = "ev_event"]
            ELSE [l EXCEPT !.pc = "ev_find"]
      [] evt.eventType = "GOAL_CONVERSION" ->
            IF \/ evt.goalId = Null
               \/ evt.attributedExperiments = None
               \/ Len(evt.attributedExperiments[1]) = 0
            THEN Finish(l, "returned")
            ELSE [l EXCEPT !.pc = "gc_conversion", !.ai = 1]
      [] evt.eventType = "CUSTOM_EVENT" -> [l EXCEPT !.pc = "ce_event"]
      [] OTHER -> [l EXCEPT !.pc = "ge_event"]

\* The switch of processEvent, up to the first await of the handler it calls.
Dispatch(l, evt) ==
    CASE evt.eventType = "SESSION_START" -> [l EXCEPT !.pc = "ss_visit"]
      [] evt.eventType = "EXPERIMENT_VIEW" ->
            IF evt.experimentId = Null \/ evt.variantId = Null
            THEN Finish(l, "returned")
            ELSE [l EXCEPT !.pc = "ev_find"]
      [] evt.eventType = "GOAL_CONVERSION" ->
            IF \/ evt.goalId = Null
               \/ evt.attributedExperiments = None
               \/ Len(evt.attributedExperiments[1]) = 0
            THEN Finish(l, "returned")
            ELSE [l EXCEPT !.pc = "gc_conversion", !.ai = 1]
      [] evt.eventType = "CUSTOM_EVENT" -> [l EXCEPT !.pc = "ce_event"]
      [] OTHER -> [l EXCEPT !.pc = "ge_event"]

\* await upsertVisitor(db, evt), then the switch.
UpsertVisitor(w) ==
    /\ loc[w].pc = "upsertVisitor"
    /\ db' = VisitorUpsert(db, Evt(w))
    /\ loc' = [loc EXCEPT ![w] = Dispatch(
                [@ EXCEPT !.visitor = VisitorId(db', Evt(w).projectId, Evt(w).visitorId)],
                Evt(w))]
    /\ UNCHANGED <<userAgent, browser, now, tz, faults, drawn, inputs, batchLen, records, output, snap>>

\* An awaited store operation of worker w succeeds: the store becomes d and the
\* worker goes on as l.
Await(w, d, l) ==
    /\ db' = d
    /\ loc' = [loc EXCEPT ![w] = l]
    /\ UNCHANGED <<userAgent, browser, now, tz, faults, drawn, inputs, batchLen, records, output, snap>>

\* ---- handleSessionStart
\* Mutant of SessionStartVisit: the visit of a Visitor row that the event itself
\* created is not counted a second time.
SessionStartVisitBarCreated(w) ==
    /\ loc[w].pc = "ss_visit"
    /\ Await(w,
             IF db.visitor[loc[w].visitor].pageViews = 1
             THEN db
             ELSE VisitorIncrementVisitCount(db, loc[w].visitor),
             [loc[w] EXCEPT !.pc = "ss_event"])

SessionStartVisit(w) ==
    /\ loc[w].pc = "ss_visit"
    /\ Await(w,
             VisitorIncrementVisitCount(db, loc[w].visitor),
             [loc[w] EXCEPT !.pc = "ss_event"])

SessionStartEvent(w) ==
    /\ loc[w].pc = "ss_event"
    /\ Await(w,
             EventCreate(db, Evt(w).projectId, loc[w].visitor, Null, Null, "PAGE_VIEW"),
             Finish(loc[w], "returned"))

\* ---- handleExperimentView
\* Mutant of ExperimentViewFind: only the create is inside if (!existingAssignment),
\* the counters are incremented on every view.
ExperimentViewFindCountsEveryView(w) ==
    /\ loc[w].pc = "ev_find"
    /\ LET found == AssignmentExists(db, loc[w].visitor, Evt(w).experimentId)
       IN  Await(w, db,
                 [loc[w] EXCEPT !.existingAssignment = found,
                                !.pc = IF found THEN "ev_variant" ELSE "ev_assign"])

\* Mutant of ExperimentViewFind: the daily-stat touch is outside
\* if (!existingAssignment), and a view that finds its assignment makes it too.
ExperimentViewFindTouchesDailyStat(w) ==
    /\ loc[w].pc = "ev_find"
    /\ LET found == AssignmentExists(db, loc[w].visitor, Evt(w).experimentId)
       IN  Await(w, db,
                 [loc[w] EXCEPT !.existingAssignment = found,
                                !.pc = IF found THEN "ev_daily" ELSE "ev_assign"])

\* existingAssignment = await db.variantAssignment.findUnique(...); when a row is
\* found the handler goes straight to the Event row.
ExperimentViewFind(w) ==
    /\ loc[w].pc = "ev_find"
    /\ LET found == AssignmentExists(db, loc[w].visitor, Evt(w).experimentId)
       IN  Await(w, db,
                 [loc[w] EXCEPT !.existingAssignment = found,
                                !.pc = IF found THEN "ev_event" ELSE "ev_assign"])

\* Mutant of ExperimentViewAssign: an upsert in place of the create, which moves an
\* assignment that exists to the variant of the event.
ExperimentViewAssignUpserts(w) ==
    /\ loc[w].pc = "ev_assign"
    /\ IF AssignmentCreateAllowed(db, loc[w].visitor, Evt(w).experimentId)
       THEN Await(w,
                  AssignmentCreate(db, loc[w].visitor, Evt(w).experimentId,
                                   Evt(w).variantId),
                  [loc[w] EXCEPT !.pc = "ev_variant"])
       ELSE Await(w,
                  [db EXCEPT !.variantAssignment = [i \in 1..Len(@) |->
                        IF /\ @[i].visitorId = loc[w].visitor
                           /\ @[i].experimentId = Evt(w).experimentId
                        THEN [@[i] EXCEPT !.variantId = Evt(w).variantId]
                        ELSE @[i]]],
                  [loc[w] EXCEPT !.pc = "ev_variant"])

\* await db.variantAssignment.create(...): the store refuses a second row of the
\* key, and the rejection is thrown to the catch of handler.
ExperimentViewAssign(w) ==
    /\ loc[w].pc = "ev_assign"
    /\ IF AssignmentCreateAllowed(db, loc[w].visitor, Evt(w).experimentId)
       THEN Await(w,
                  AssignmentCreate(db, loc[w].visitor, Evt(w).experimentId,
                                   Evt(w).variantId),
                  [loc[w] EXCEPT !.pc = "ev_variant"])
       ELSE Await(w, db, Caught(loc[w], "refused"))

ExperimentViewVariant(w) ==
    /\ loc[w].pc = "ev_variant"
    /\ Await(w,
             VariantIncrementVisitors(db, Evt(w).variantId),
             [loc[w] EXCEPT !.pc = "ev_experiment"])

ExperimentViewExperiment(w) ==
    /\ loc[w].pc = "ev_experiment"
    /\ Await(w,
             ExperimentIncrementVisitors(db, Evt(w).experimentId),
             [loc[w] EXCEPT !.pc = "ev_daily"])

ExperimentViewEvent(w) ==
    /\ loc[w].pc = "ev_event"
    /\ Await(w,
             EventCreate(db, Evt(w).projectId, loc[w].visitor, Evt(w).experimentId,
                         Evt(w).variantId, "EXPERIMENT_VIEW"),
             [loc[w] EXCEPT !.pc = "ev_log"])

ExperimentViewLog(w) ==
    /\ loc[w].pc = "ev_log"
    /\ Await(w,
             LiveLogCreate(db, Evt(w).experimentId, Evt(w).visitorId, Evt(w).variantId,
                           "VISITOR_ASSIGNED"),
             Finish(loc[w], "returned"))

\* ---- handleGoalConversion
\* The attribution the for-of loop of handleGoalConversion is at.
Exp(w) == Evt(w).attributedExperiments[1][loc[w].ai]

GoalConversionCreateRow(w) ==
    /\ loc[w].pc = "gc_conversion"
    /\ Await(w,
             GoalConversionCreate(db, Evt(w).goalId, Exp(w).experimentId,
                                  Exp(w).variantId, loc[w].visitor, Evt(w).value),
             [loc[w] EXCEPT !.pc = "gc_variant"])

\* Mutant of GoalConversionVariant: the counter is written as the value it had
\* when the event was begun plus 1, not incremented in the store.
GoalConversionVariantReadModifyWrite(w) ==
    /\ loc[w].pc = "gc_variant"
    /\ Await(w,
             [db EXCEPT !.variant[Exp(w).variantId].conversions =
                    snap[w].db.variant[Exp(w).variantId].conversions + 1],
             [loc[w] EXCEPT !.pc = "gc_experiment"])

GoalConversionVariant(w) ==
    /\ loc[w].pc = "gc_variant"
    /\ Await(w,
             VariantIncrementConversions(db, Exp(w).variantId),
             [loc[w] EXCEPT !.pc = "gc_experiment"])

GoalConversionExperiment(w) ==
    /\ loc[w].pc = "gc_experiment"
    /\ Await(w,
             ExperimentIncrementConversions(db, Exp(w).experimentId),
             [loc[w] EXCEPT !.pc = "gc_goal"])

GoalConversionGoal(w) ==
    /\ loc[w].pc = "gc_goal"
    /\ Await(w,
             ExperimentGoalIncrement(db, Exp(w).experimentId, Evt(w).goalId),
             [loc[w] EXCEPT !.pc = "gc_daily"])

\* Mutant of NextAttribution: an experiment is credited once per event, later
\* attributions to an experiment already credited are skipped.
NextAttributionOncePerExperiment(l, evt) ==
    LET a == evt.attributedExperiments[1]
        rest == {j \in (l.ai + 1)..Len(a) :
                    \A i \in 1..(j - 1) : a[i].experimentId # a[j].experimentId}
    IN  IF rest = {}
        THEN Finish(l, "returned")
        ELSE [l EXCEPT !.pc = "gc_conversion",
                       !.ai = CHOOSE j \in rest : \A i \in rest : j <= i]

\* for (const exp of attributedExperiments): on to the next attribution, if any.
NextAttribution(l, evt) ==
    IF l.ai = Len(evt.attributedExperiments[1])
    THEN Finish(l, "returned")
    ELSE [l EXCEPT !.pc = "gc_conversion", !.ai = @ + 1]

GoalConversionLog(w) ==
    /\ loc[w].pc = "gc_log"
    /\ Await(w,
             LiveLogCreate(db, Exp(w).experimentId, Evt(w).visitorId, Exp(w).variantId,
                           "GOAL_CONVERSION"),
             NextAttribution(loc[w], Evt(w)))

\* ---- handleCustomEvent, handleGenericEvent
\* evt.attributedExperiments?.[0]?.experimentId and ?.variantId
FirstAttributed(evt, field) ==
    IF evt.attributedExperiments = None THEN Null
    ELSE IF Len(evt.attributedExperiments[1]) = 0 THEN Null
    ELSE evt.attributedExperiments[1][1][field]

CustomEvent(w) ==
    /\ loc[w].pc = "ce_event"
    /\ Await(w,
             EventCreate(db, Evt(w).projectId, loc[w].visitor,
                         FirstAttributed(Evt(w), "experimentId"),
                         FirstAttributed(Evt(w), "variantId"), "CUSTOM"),
             Finish(loc[w], "returned"))

GenericEvent(w) ==
    /\ loc[w].pc = "ge_event"
    /\ Await(w,
             EventCreate(db, Evt(w).projectId, loc[w].visitor, Null, Null,
                         Evt(w).eventType),
             Finish(loc[w], "returned"))

\* ---- updateDailyStat
\* Where the handler goes on after updateDailyStat, which never throws.
AfterDailyStat(at) == IF at = "ev_daily" THEN "ev_event" ELSE "gc_log"

\* The key date of the touch: new Date() with setHours(0, 0, 0, 0), read at the
\* instant t of the wall clock.
Today(t) == LocalMidnight(t, tz)

\* updateDailyStat(db, experimentId, "impressions") of handleExperimentView and
\* updateDailyStat(db, experimentId, "conversions", value) of handleGoalConversion;
\* the wall clock is read, at or after its last reading.
UpdateDailyStat(w) ==
    /\ loc[w].pc \in {"ev_daily", "gc_daily"}
    /\ \E t \in now..MaxNow :
        /\ now' = t
        /\ db' = IF loc[w].pc = "ev_daily"
                 THEN DailyStatUpsert(db, Evt(w).experimentId, Today(t),
                                      "impressions", None)
                 ELSE DailyStatUpsert(db, Exp(w).experimentId, Today(t),
                                      "conversions", Evt(w).value)
    /\ loc' = [loc EXCEPT ![w].pc = AfterDailyStat(loc[w].pc)]
    /\ UNCHANGED <<userAgent, browser, tz, faults, drawn, inputs, batchLen, records, output, snap>>

\* Mutant of UpdateDailyStatFails: updateDailyStat has no catch of its own, and the
\* rejection of its upsert is thrown to the catch of handler.
UpdateDailyStatThrows(w) ==
    /\ loc[w].pc \in {"ev_daily", "gc_daily"}
    /\ faults < MaxFaults
    /\ faults' = faults + 1
    /\ loc' = [loc EXCEPT ![w] = Finish(@, "thrown")]
    /\ UNCHANGED <<userAgent, browser, db, now, tz, drawn, inputs, batchLen, records, output, snap>>

\* The upsert of updateDailyStat fails: its own catch logs the error and the
\* handler goes on.
UpdateDailyStatFails(w) ==
    /\ loc[w].pc \in {"ev_daily", "gc_daily"}
    /\ faults < MaxFaults
    /\ faults' = faults + 1
    /\ loc' = [loc EXCEPT ![w].pc = AfterDailyStat(loc[w].pc)]
    /\ UNCHANGED <<userAgent, browser, db, now, tz, drawn, inputs, batchLen, records, output, snap>>

\* ---- storage errors
\* The awaits whose rejection reaches the catch around processEvent in handler.
Throwing ==
    {"upsertVisitor", "ss_visit", "ss_event", "ev_find", "ev_assign", "ev_variant",
     "ev_experiment", "ev_event", "ev_log", "gc_conversion", "gc_variant",
     "gc_experiment", "gc_goal", "gc_log", "ce_event", "ge_event"}

\* A store operation fails: the rest of the event is skipped and handler goes on
\* with the next event of the record.
StoreFails(w) ==
    /\ loc[w].pc \in Throwing
    /\ faults < MaxFaults
    /\ faults' = faults + 1
    /\ loc' = [loc EXCEPT ![w] = Caught(@, "thrown")]
    /\ UNCHANGED <<userAgent, browser, db, now, tz, drawn, inputs, batchLen, records, output, snap>>

\* ---- detectBrowser
\* ua.includes(token)
Includes(ua, token) == \E i \in 1..Len(ua) : ua[i] = token

detectBrowser(ua) ==
    IF Includes(ua, "Chrome") /\ ~Includes(ua, "Edg") THEN "chrome"
    ELSE IF Includes(ua, "Firefox") THEN "firefox"
    ELSE IF Includes(ua, "Safari") /\ ~Includes(ua, "Chrome") THEN "safari"
    ELSE IF Includes(ua, "Edg") THEN "edge"
    ELSE IF Includes(ua, "Opera") \/ Includes(ua, "OPR") THEN "opera"
    ELSE "other"

\* const browser = detectBrowser(ua) of upsertVisitor.
DetectBrowser ==
    /\ browser = Null
    /\ browser' = detectBrowser(userAgent)
    /\ UNCHANGED <<userAgent, db, now, tz, faults, drawn, inputs, batchLen, records,
                   output, loc, snap>>

\* ------------------------------------------------------------------ specification
InitCommon ==
    /\ db = EmptyDb
    /\ now = 0
    /\ tz \in TzOffsets
    /\ faults = 0
    /\ drawn = 0
    /\ records = [w \in Workers |-> <<>>]
    /\ output = [w \in Workers |-> <<>>]
    /\ loc = [w \in Workers |-> Idle]
    /\ snap = [w \in Workers |-> [db |-> EmptyDb, faults |-> 0]]
    /\ userAgent = <<>>
    /\ browser = Null

\* One invocation at a time: a lone worker is handed a batch.
Init ==
    /\ InitCommon
    /\ inputs = "any"
    /\ \E n \in 0..MaxRecords :
         batchLen = [w \in Workers |-> IF w = "w1" THEN n ELSE 0]

\* Two invocations run concurrently, each on a batch of at most one record.
InitConcurrent ==
    /\ InitCommon
    /\ inputs = "single"
    /\ batchLen \in [Workers -> 0..1]

Next ==
    \E w \in Workers :
        \/ ReadRecord(w)
        \/ Return(w)
        \/ NextEvent(w)
        \/ UpsertVisitor(w)
        \/ SessionStartVisit(w)
        \/ SessionStartEvent(w)
        \/ ExperimentViewFind(w)
        \/ ExperimentViewAssign(w)
        \/ ExperimentViewVariant(w)
        \/ ExperimentViewExperiment(w)
        \/ ExperimentViewEvent(w)
        \/ ExperimentViewLog(w)
        \/ GoalConversionCreateRow(w)
        \/ GoalConversionVariant(w)
        \/ GoalConversionExperiment(w)
        \/ GoalConversionGoal(w)
        \/ GoalConversionLog(w)
        \/ CustomEvent(w)
        \/ GenericEvent(w)
        \/ UpdateDailyStat(w)
        \/ UpdateDailyStatFails(w)
        \/ StoreFails(w)

Spec == Init /\ [][Next]_vars

\* detectBrowser alone, on any user agent string.
InitDetectBrowser ==
    /\ db = EmptyDb
    /\ now = 0
    /\ tz = 0
    /\ faults = 0
    /\ drawn = 0
    /\ inputs = "any"
    /\ batchLen = [w \in Workers |-> 0]
    /\ records = [w \in Workers |-> <<>>]
    /\ output = [w \in Workers |-> <<>>]
    /\ loc = [w \in Workers |-> Idle]
    /\ snap = [w \in Workers |-> [db |-> EmptyDb, faults |-> 0]]
    /\ userAgent \in UserAgents
    /\ browser = Null

NextDetectBrowser == DetectBrowser

SpecDetectBrowser == InitDetectBrowser /\ [][NextDetectBrowser]_vars

SpecConcurrent == InitConcurrent /\ [][Next]_vars

\* ------------------------------------------------------------------ properties
\* The tables of the store.
Tables == DOMAIN EmptyDb

\* Worker w has begun an event of the record it is at, and that event is over.
Ended(w) == loc[w].ei >= 1 /\ Len(loc[w].results) = loc[w].ei

\* How the event that is over ended.
LastResult(w) == loc[w].results[loc[w].ei]

\* The store as it was when the current event of w was begun.
Before(w) == snap[w].db

\* No storage operation has failed since the current event of w was begun.
NoFaultDuring(w) == faults = snap[w].faults

\* The sum of a counter over the first n ExperimentDailyStat rows of an experiment.
RECURSIVE DailySum(_, _, _, _)
DailySum(stats, experimentId, field, n) ==
    IF n = 0 THEN 0
    ELSE DailySum(stats, experimentId, field, n - 1)
         + (IF stats[n].experimentId = experimentId THEN stats[n][field] ELSE 0)

DailyTotal(d, experimentId, field) ==
    DailySum(d.experimentDailyStat, experimentId, field, Len(d.experimentDailyStat))

\* The table grew by exactly n rows at its end, the rows before them untouched.
Appended(old, new, n) ==
    /\ Len(new) = Len(old) + n
    /\ \A i \in 1..Len(old) : new[i] = old[i]

\* The Visitor table after the first or a later event of the event's key: a first
\* event adds the one row of the key, with both counters at 1 and both dates at the
\* event's instant; a later one moves lastSeen and adds 1 to pageViews.
Upserted(visitors, evt) ==
    LET keyed == {i \in 1..Len(visitors) :
                    /\ visitors[i].projectId = evt.projectId
                    /\ visitors[i].visitorId = evt.visitorId}
    IN  IF keyed = {}
        THEN Append(visitors,
                [projectId |-> evt.projectId, visitorId |-> evt.visitorId,
                 firstSeen |-> ToInstant(evt.timestamp),
                 lastSeen |-> ToInstant(evt.timestamp),
                 visitCount |-> 1, pageViews |-> 1])
        ELSE [i \in 1..Len(visitors) |->
                IF i \in keyed
                THEN [projectId |-> visitors[i].projectId,
                      visitorId |-> visitors[i].visitorId,
                      firstSeen |-> visitors[i].firstSeen,
                      lastSeen |-> ToInstant(evt.timestamp),
                      visitCount |-> visitors[i].visitCount,
                      pageViews |-> visitors[i].pageViews + 1]
                ELSE visitors[i]]

\* ---- C1
\* C1: handler returns exactly one outcome entry per input record, in the order of
\* the input records, the i-th entry carrying the recordId of the i-th record,
\* whatever mix of undecodable records and storage failures occurs.
C1_OneOutcomePerRecordInOrder ==
    \A w \in Workers :
        /\ Len(output[w]) <= Len(records[w])
        /\ \A i \in 1..Len(output[w]) : output[w][i].recordId = records[w][i].recordId
        /\ loc[w].pc = "done" =>
            /\ Len(records[w]) = batchLen[w]
            /\ Len(output[w]) = batchLen[w]

\* A batch of an undecodable record followed by a record one of whose events hit a
\* storage failure has been returned.
C1_Witness ==
    \E w \in Workers :
        /\ loc[w].pc = "done"
        /\ Len(output[w]) = 2
        /\ records[w][1].data = Garbage
        /\ records[w][2].data.kind = "array"
        /\ \E i \in 1..Len(loc[w].results) : loc[w].results[i] = "thrown"

\* ---- C6
\* C6: reading a record whose body is no JSON pushes "ProcessingFailed" with the
\* recordId and the unchanged body of the record, and leaves every table of the
\* store as it was.
C6_UndecodableRecordFailsWithoutWrites ==
    [][\A w \in Workers :
         (/\ Len(records'[w]) = Len(records[w]) + 1
          /\ records'[w][Len(records'[w])].data.kind = "garbage")
         => LET record == records'[w][Len(records'[w])]
            IN  /\ db' = db
                /\ output'[w] = Append(output[w],
                        [recordId |-> record.recordId, result |-> "ProcessingFailed",
                         data |-> record.data])]_vars

\* An undecodable record was failed after an earlier record had written to the store.
C6_Witness ==
    \E w \in Workers :
        /\ Len(output[w]) = 2
        /\ records[w][2].data = Garbage
        /\ output[w][2].result = "ProcessingFailed"
        /\ output[w][2].data = Garbage
        /\ Len(db.event) > 0

\* ---- C7
IsAttributedConversion(evt) ==
    /\ ~MissingRequired(evt)
    /\ evt.eventType = "GOAL_CONVERSION"
    /\ evt.goalId # Null
    /\ evt.attributedExperiments # None
    /\ Len(evt.attributedExperiments[1]) >= 1

\* What a GOAL_CONVERSION with a goalId and k >= 1 attributions has changed when it
\* is over: k GoalConversion rows (one per attribution, in order) and k LiveLog
\* entries are appended, and the conversions of each variant, the totalConversions
\* of each experiment, the conversions of each experiment-goal pairing and the
\* daily conversions of each experiment have risen by the number of attributions
\* that name it.
ConversionEffects(w) ==
    LET evt == Evt(w)
        a == evt.attributedExperiments[1]
        k == Len(a)
        b == Before(w)
        n == Len(b.goalConversion)
    IN  /\ Appended(b.goalConversion, db.goalConversion, k)
        /\ \A i \in 1..k :
            /\ db.goalConversion[n + i].goalId = evt.goalId
            /\ db.goalConversion[n + i].experimentId = a[i].experimentId
            /\ db.goalConversion[n + i].variantId = a[i].variantId
            /\ db.goalConversion[n + i].visitorId = loc[w].visitor
        /\ \A v \in VariantIds :
            LET Names(x) == x.variantId = v
            IN  /\ db.variant[v].conversions = b.variant[v].conversions + Cardinality({i \in 1..Len(a) : Names(a[i])})
                /\ db.variant[v].visitors = b.variant[v].visitors
        /\ \A e \in ExperimentIds :
            LET Names(x) == x.experimentId = e
            IN  /\ db.experiment[e].totalConversions =
                        b.experiment[e].totalConversions + Cardinality({i \in 1..Len(a) : Names(a[i])})
                /\ db.experiment[e].totalVisitors = b.experiment[e].totalVisitors
                /\ DailyTotal(db, e, "conversions") =
                        DailyTotal(b, e, "conversions") + Cardinality({i \in 1..Len(a) : Names(a[i])})
        /\ \A p \in ExperimentGoalPairs :
            LET Names(x) == <<x.experimentId, evt.goalId>> = p
            IN  db.experimentGoal[p].conversions =
                    b.experimentGoal[p].conversions + Cardinality({i \in 1..Len(a) : Names(a[i])})
        /\ Appended(b.liveLog, db.liveLog, k)
        /\ \A i \in 1..k : db.liveLog[Len(b.liveLog) + i].logType = "GOAL_CONVERSION"

\* C7: a GOAL_CONVERSION with a goalId and k >= 1 attributions, processed without a
\* storage failure, produces exactly k GoalConversion rows, k LiveLog entries and k
\* increments of the variant, experiment, experiment-goal and daily conversion
\* counters, each counter rising once per attribution that names it: attributions
\* that repeat an experiment or a variant are not merged.
C7_EveryAttributionFullyRecorded ==
    \A w \in Workers :
        (Ended(w) /\ IsAttributedConversion(Evt(w)) /\ NoFaultDuring(w)) =>
            /\ LastResult(w) = "returned"
            /\ ConversionEffects(w)

\* A conversion attributed twice to the same experiment and variant was processed
\* to its end without a storage failure.
C7_Witness ==
    \E w \in Workers :
        /\ Ended(w)
        /\ IsAttributedConversion(Evt(w))
        /\ NoFaultDuring(w)
        /\ Evt(w).attributedExperiments[1] = <<Attr("e1", "A"), Attr("e1", "A")>>
        /\ LastResult(w) = "returned"

\* ---- C8
IsNoopConversion(evt) ==
    /\ ~MissingRequired(evt)
    /\ evt.eventType = "GOAL_CONVERSION"
    /\ \/ evt.goalId = Null
       \/ evt.attributedExperiments = None
       \/ Len(evt.attributedExperiments[1]) = 0

\* C8 as claimed: a GOAL_CONVERSION without goalId or without attributions writes
\* or changes no row of any kind.
C8_NoopConversionWritesNothing ==
    \A w \in Workers :
        (Ended(w) /\ IsNoopConversion(Evt(w))) => db = Before(w)

\* C8 as amended: a GOAL_CONVERSION without goalId or without attributions changes
\* no table but Visitor, and Visitor only by the upsert of the event's visitor.
C8_NoopConversionOnlyUpsertsVisitor ==
    \A w \in Workers :
        (loc[w].ei >= 1 /\ IsNoopConversion(Evt(w))) =>
            /\ \A t \in Tables \ {"visitor"} : db[t] = Before(w)[t]
            /\ db.visitor \in {Before(w).visitor, Upserted(Before(w).visitor, Evt(w))}
            /\ (Ended(w) /\ NoFaultDuring(w)) =>
                /\ LastResult(w) = "returned"
                /\ db.visitor = Upserted(Before(w).visitor, Evt(w))

\* A conversion without attributions ended after an earlier event had written
\* conversion rows and counters.
C8_Witness ==
    \E w \in Workers :
        /\ Ended(w)
        /\ IsNoopConversion(Evt(w))
        /\ LastResult(w) = "returned"
        /\ Len(db.goalConversion) > 0
        /\ Len(db.visitor) = 1
        /\ db.visitor[1].pageViews = 2

\* ---- C2
IsTrackedView(evt) ==
    /\ ~MissingRequired(evt)
    /\ evt.eventType = "EXPERIMENT_VIEW"
    /\ evt.experimentId # Null
    /\ evt.variantId # Null

\* The view that is over was the first of its (visitor, experiment) pair.
FirstView(w) == ~AssignmentExists(Before(w), loc[w].visitor, Evt(w).experimentId)

\* What a view with experimentId and variantId has changed when it is over: a first
\* view of the pair has added the assignment and 1 to the visitors of its variant,
\* to the totalVisitors of its experiment and to the experiment's daily impressions;
\* a later view has changed none of these; both have appended one Event row and one
\* LiveLog row.
ViewEffects(w) ==
    LET evt == Evt(w)
        b == Before(w)
    IN  /\ IF FirstView(w)
           THEN /\ Appended(b.variantAssignment, db.variantAssignment, 1)
                /\ db.variantAssignment[Len(db.variantAssignment)] =
                        [visitorId |-> loc[w].visitor,
                         experimentId |-> evt.experimentId,
                         variantId |-> evt.variantId]
                /\ db.variant = [b.variant EXCEPT ![evt.variantId].visitors = @ + 1]
                /\ db.experiment =
                        [b.experiment EXCEPT ![evt.experimentId].totalVisitors = @ + 1]
                /\ DailyTotal(db, evt.experimentId, "impressions") =
                        DailyTotal(b, evt.experimentId, "impressions") + 1
           ELSE /\ db.variantAssignment = b.variantAssignment
                /\ db.variant = b.variant
                /\ db.experiment = b.experiment
                /\ db.experimentDailyStat = b.experimentDailyStat
        /\ Appended(b.event, db.event, 1)
        /\ db.event[Len(db.event)] =
                [projectId |-> evt.projectId, visitorId |-> loc[w].visitor,
                 experimentId |-> evt.experimentId, variantId |-> evt.variantId,
                 eventType |-> "EXPERIMENT_VIEW"]
        /\ Appended(b.liveLog, db.liveLog, 1)
        /\ db.liveLog[Len(db.liveLog)].logType = "VISITOR_ASSIGNED"

\* C2: processed by one worker at a time and without a storage failure, the first
\* EXPERIMENT_VIEW of a (visitor, experiment) pair creates exactly one
\* VariantAssignment and adds exactly 1 to the variant's visitors, the experiment's
\* totalVisitors and the daily impressions; every later EXPERIMENT_VIEW of the pair
\* creates no assignment and changes none of those counters, and appends exactly
\* one Event row and one LiveLog row.
C2_FirstViewCountsOnceLaterViewsOnlyLog ==
    \A w \in Workers :
        (Ended(w) /\ IsTrackedView(Evt(w)) /\ NoFaultDuring(w)) =>
            /\ LastResult(w) = "returned"
            /\ ViewEffects(w)

\* A second view of a pair is over: the store holds the one assignment and the
\* counters of the first view, and the Event and LiveLog rows of both.
C2_Witness ==
    \E w \in Workers :
        /\ Ended(w)
        /\ IsTrackedView(Evt(w))
        /\ NoFaultDuring(w)
        /\ ~FirstView(w)
        /\ Len(db.variantAssignment) = 1
        /\ db.experiment["e1"].totalVisitors = 1
        /\ Len(db.event) = 2
        /\ Len(db.liveLog) = 2

\* ---- C3
\* C3: in every reachable state, whatever the interleaving of the workers, there
\* is at most one VariantAssignment row per (visitorId, experimentId).
C3_AtMostOneAssignmentPerPair ==
    \A i, j \in 1..Len(db.variantAssignment) :
        (/\ db.variantAssignment[i].visitorId = db.variantAssignment[j].visitorId
         /\ db.variantAssignment[i].experimentId = db.variantAssignment[j].experimentId)
        => i = j

\* Two workers found no assignment of the pair; one created it and the create of
\* the other was refused.
C3_Witness ==
    /\ Len(db.variantAssignment) = 1
    /\ \E w \in Workers :
        /\ Ended(w)
        /\ IsTrackedView(Evt(w))
        /\ LastResult(w) = "refused"

\* ---- C4
\* Worker w was handed one record holding one view with experimentId and variantId.
HandledOneView(w) ==
    /\ loc[w].pc = "done"
    /\ Len(records[w]) = 1
    /\ records[w][1].data.kind = "array"
    /\ Len(records[w][1].data.val) = 1
    /\ IsTrackedView(records[w][1].data.val[1])

\* C4 as claimed: when two workers each process one EXPERIMENT_VIEW of the same
\* (visitor, experiment) pair and no storage operation fails, then whatever the
\* interleaving there is one assignment, visitors, totalVisitors and impressions
\* have each risen by exactly 1 in total, and both views have their Event row and
\* their LiveLog row.
C4_RaceLoserIsARepeatView ==
    ((\A w \in Workers : HandledOneView(w)) /\ faults = 0) =>
        /\ Len(db.variantAssignment) = 1
        /\ db.variant["A"].visitors + db.variant["B"].visitors = 1
        /\ db.experiment["e1"].totalVisitors = 1
        /\ DailyTotal(db, "e1", "impressions") = 1
        /\ Len(db.event) = Cardinality(Workers)
        /\ Len(db.liveLog) = Cardinality(Workers)

\* ---- C9
\* The counter `field` of the ExperimentDailyStat row of (experimentId, date), 0
\* when there is no such row.
DailyCounter(d, experimentId, date, field) ==
    LET id == DailyStatId(d, experimentId, date)
    IN  IF id = 0 THEN 0 ELSE d.experimentDailyStat[id][field]

\* C9 as claimed: the daily-stat touches of an event land in the row keyed by the
\* experiment and the UTC calendar date of the event's timestamp, whenever the
\* event is processed and whatever the local-time offset.
C9_DailyStatKeyedByEventUtcDay ==
    \A w \in Workers :
        (Ended(w) /\ NoFaultDuring(w)) =>
            LET evt == Evt(w)
                b == Before(w)
                day == UtcDay(ToInstant(evt.timestamp))
            IN  /\ (IsTrackedView(evt) /\ FirstView(w)) =>
                    DailyCounter(db, evt.experimentId, day, "impressions") =
                        DailyCounter(b, evt.experimentId, day, "impressions") + 1
                /\ IsAttributedConversion(evt) =>
                    \A e \in ExperimentIds :
                        LET a == evt.attributedExperiments[1]
                            Names(x) == x.experimentId = e
                        IN  DailyCounter(db, e, day, "conversions") =
                                DailyCounter(b, e, day, "conversions")
                                + Cardinality({i \in 1..Len(a) : Names(a[i])})

\* ---- C10
\* C10: no two Visitor rows share a (projectId, visitorId) key; the upsert of the
\* first event of a key adds the one row of the key with visitCount = 1,
\* pageViews = 1 and firstSeen = lastSeen = the event's instant; the upsert of a
\* later event sets lastSeen to the event's instant and adds exactly 1 to
\* pageViews; and an event that is no session start changes nothing else of the
\* Visitor table, so that visitCount and firstSeen stay as they were.
C10_VisitorCreatedOnceThenUpdated ==
    /\ \A i, j \in 1..Len(db.visitor) :
        (/\ db.visitor[i].projectId = db.visitor[j].projectId
         /\ db.visitor[i].visitorId = db.visitor[j].visitorId) => i = j
    /\ \A w \in Workers :
        (/\ loc[w].ei >= 1
         /\ loc[w].visitor # 0
         /\ Evt(w).eventType = "SESSION_START" => loc[w].pc = "ss_visit")
        => db.visitor = Upserted(Before(w).visitor, Evt(w))

\* A later event of a key, which is no session start and carries another instant
\* than the one before it, is over.
C10_Witness ==
    \E w \in Workers :
        /\ Ended(w)
        /\ loc[w].visitor # 0
        /\ Evt(w).eventType # "SESSION_START"
        /\ Len(Before(w).visitor) = 1
        /\ Before(w).visitor[1].lastSeen # ToInstant(Evt(w).timestamp)
        /\ db.visitor[1].pageViews = 2
        /\ db.visitor[1].visitCount = 1

\* ---- C5
\* The tables named are as they were when the current event of w was begun.
Untouched(w, tables) == \A t \in tables : db[t] = Before(w)[t]

\* One Event row of the given type is appended.
EventAppended(w, eventType) ==
    /\ Appended(Before(w).event, db.event, 1)
    /\ db.event[Len(db.event)].eventType = eventType
    /\ db.event[Len(db.event)].visitorId = loc[w].visitor

\* The whole of what an event that returned has changed, by the kind of the event.
FullEffects(w) ==
    LET evt == Evt(w)
        upserted == Upserted(Before(w).visitor, evt)
    IN  CASE MissingRequired(evt) -> db = Before(w)
          [] IsTrackedView(evt) ->
                /\ db.visitor = upserted
                /\ ViewEffects(w)
                /\ Untouched(w, {"goalConversion", "experimentGoal"})
          [] IsAttributedConversion(evt) ->
                /\ db.visitor = upserted
                /\ ConversionEffects(w)
                /\ Untouched(w, {"event", "variantAssignment"})
          [] evt.eventType = "SESSION_START" ->
                /\ db.visitor = [upserted EXCEPT ![loc[w].visitor].visitCount = @ + 1]
                /\ EventAppended(w, "PAGE_VIEW")
                /\ Untouched(w, Tables \ {"visitor", "event"})
          [] evt.eventType = "CUSTOM_EVENT" ->
                /\ db.visitor = upserted
                /\ EventAppended(w, "CUSTOM")
                /\ Untouched(w, Tables \ {"visitor", "event"})
          [] evt.eventType \in {"EXPERIMENT_VIEW", "GOAL_CONVERSION"} ->
                /\ db.visitor = upserted
                /\ Untouched(w, Tables \ {"visitor"})
          [] OTHER ->
                /\ db.visitor = upserted
                /\ EventAppended(w, evt.eventType)
                /\ Untouched(w, Tables \ {"visitor", "event"})

\* The last write of the event's handler has not been made.
LastWriteMissing(w) ==
    LET evt == Evt(w)
    IN  CASE IsTrackedView(evt) -> db.liveLog = Before(w).liveLog
          [] IsAttributedConversion(evt) ->
                Len(db.liveLog) < Len(Before(w).liveLog) + Len(evt.attributedExperiments[1])
          [] evt.eventType \in {"EXPERIMENT_VIEW", "GOAL_CONVERSION"} ->
                db = Before(w)
          [] OTHER -> db.event = Before(w).event

\* C5: a record that decodes is reported "Ok" however many of its events fail with
\* a storage error; every one of its N events is processed, a failure of one not
\* keeping the next from being begun; an event that fails stops where it failed,
\* its remaining writes never made; and each event that does not fail has exactly
\* the effects of its kind.
C5_RecordAcceptedFailedEventsAbandoned ==
    \A w \in Workers :
        /\ \A i \in 1..Len(output[w]) :
            records[w][i].data.kind # "garbage" => output[w][i].result = "Ok"
        /\ (/\ Len(records[w]) >= 1
            /\ Len(output[w]) = Len(records[w])
            /\ records[w][Len(records[w])].data.kind # "garbage")
           => Len(loc[w].results) = Len(records[w][Len(records[w])].data.val)
        /\ (Ended(w) /\ LastResult(w) = "thrown") => LastWriteMissing(w)
        /\ (Ended(w) /\ LastResult(w) # "thrown" /\ NoFaultDuring(w)) => FullEffects(w)

\* A record of two events is reported "Ok": its first event failed after its
\* Visitor row was created, its second, a view, was processed to its end.
C5_Witness ==
    \E w \in Workers :
        /\ Len(output[w]) = 1
        /\ output[w][1].result = "Ok"
        /\ loc[w].results = <<"thrown", "returned">>
        /\ IsTrackedView(Evt(w))
        /\ db.visitor[1].pageViews = 2
        /\ Len(db.liveLog) = 1

\* ---- C11
\* The event has no projectId, no visitorId or no eventType.
LacksRequiredField(evt) ==
    \E f \in {"projectId", "visitorId", "eventType"} : evt[f] = Null

\* C11: an event without projectId, visitorId or eventType is dropped as soon as
\* processEvent is called on it: no table of the store is written for it, and the
\* record that holds it is reported "Ok".
C11_IncompleteEventDroppedRecordAccepted ==
    \A w \in Workers :
        /\ (loc[w].ei >= 1 /\ LacksRequiredField(Evt(w))) =>
            /\ Ended(w)
            /\ LastResult(w) = "dropped"
            /\ db = Before(w)
        /\ \A i \in 1..Len(output[w]) :
            (/\ records[w][i].data.kind # "garbage"
             /\ \E j \in 1..Len(records[w][i].data.val) :
                    LacksRequiredField(records[w][i].data.val[j]))
            => output[w][i].result = "Ok"

\* A record whose first event wrote to the store and whose second event has no
\* visitorId is reported "Ok", the second event dropped.
C11_Witness ==
    \E w \in Workers :
        /\ Len(output[w]) = 1
        /\ output[w][1].result = "Ok"
        /\ loc[w].results = <<"returned", "dropped">>
        /\ Evt(w).visitorId = Null
        /\ Len(db.visitor) = 1

\* ---- C12
\* No worker is inside processEvent.
NoEventInFlight == \A w \in Workers : loc[w].pc \in {"loop", "events", "done"}

\* The GoalConversion rows of the store that satisfy the test on the given field.
ConversionRows(d, field, val) ==
    Cardinality({i \in 1..Len(d.goalConversion) : d.goalConversion[i][field] = val})

\* C12 as claimed: whenever no event is in flight, storage failures or not, pairing
\* or not, the GoalConversion rows of a variant are as many as its conversions, the
\* rows of an experiment as many as its totalConversions and as its daily
\* conversions, and every row belongs to an experiment-goal pairing whose
\* conversions count as many as the rows of the pairing.
C12_ConversionRowsMatchCounters ==
    NoEventInFlight =>
        /\ \A v \in VariantIds :
            ConversionRows(db, "variantId", v) = db.variant[v].conversions
        /\ \A e \in ExperimentIds :
            /\ ConversionRows(db, "experimentId", e) = db.experiment[e].totalConversions
            /\ ConversionRows(db, "experimentId", e) = DailyTotal(db, e, "conversions")
        /\ \A i \in 1..Len(db.goalConversion) :
            <<db.goalConversion[i].experimentId, db.goalConversion[i].goalId>>
                \in DOMAIN db.experimentGoal
        /\ \A p \in DOMAIN db.experimentGoal :
            db.experimentGoal[p].conversions =
                Cardinality({i \in 1..Len(db.goalConversion) :
                    /\ db.goalConversion[i].experimentId = p[1]
                    /\ db.goalConversion[i].goalId = p[2]})

\* ---- C13
\* C13 as claimed: a failure of the LiveLog append of an attribution is swallowed,
\* and the handler goes on to record the attributions that remain.
C13_LiveLogFailureNotFatal ==
    [][\A w \in Workers :
         (/\ loc[w].pc = "gc_log"
          /\ loc[w].ai < Len(Evt(w).attributedExperiments[1])
          /\ faults' = faults + 1
          /\ loc'[w] # loc[w])
         => /\ loc'[w].pc = "gc_conversion"
            /\ loc'[w].ai = loc[w].ai + 1]_vars

\* ---- C14
\* The storage failures since the current event of w was begun.
FaultsDuring(w) == faults - snap[w].faults

\* What an event that returned although daily-stat touches of it failed has changed:
\* everything an event of its kind changes, but for the failed touches.
EffectsBarFailedTouches(w) ==
    LET evt == Evt(w)
        b == Before(w)
    IN  CASE IsTrackedView(evt) ->
                /\ FirstView(w)
                /\ FaultsDuring(w) = 1
                /\ Appended(b.variantAssignment, db.variantAssignment, 1)
                /\ db.variantAssignment[Len(db.variantAssignment)].variantId = evt.variantId
                /\ db.variant = [b.variant EXCEPT ![evt.variantId].visitors = @ + 1]
                /\ db.experiment =
                        [b.experiment EXCEPT ![evt.experimentId].totalVisitors = @ + 1]
                /\ db.experimentDailyStat = b.experimentDailyStat
                /\ Appended(b.event, db.event, 1)
                /\ Appended(b.liveLog, db.liveLog, 1)
          [] IsAttributedConversion(evt) ->
                LET a == evt.attributedExperiments[1]
                    k == Len(a)
                IN  /\ Appended(b.goalConversion, db.goalConversion, k)
                    /\ Appended(b.liveLog, db.liveLog, k)
                    /\ \A v \in VariantIds :
                        db.variant[v].conversions = b.variant[v].conversions
                            + Cardinality({i \in 1..k : a[i].variantId = v})
                    /\ \A e \in ExperimentIds :
                        LET named == Cardinality({i \in 1..k : a[i].experimentId = e})
                        IN  /\ db.experiment[e].totalConversions =
                                    b.experiment[e].totalConversions + named
                            /\ DailyTotal(db, e, "conversions")
                                    <= DailyTotal(b, e, "conversions") + named
                            /\ named = k =>
                                    DailyTotal(db, e, "conversions") =
                                        DailyTotal(b, e, "conversions") + k - FaultsDuring(w)
          [] OTHER -> FALSE

\* C14: a failure of the daily-stat touch changes nothing in the store and the
\* handler goes on with the step after the touch; when the event is over, the
\* assignment or conversion rows, the variant and experiment increments, the Event
\* row and the LiveLog entries of the event are all there, and only the failed
\* touches are missing from the daily counters.
C14_DailyStatFailureIsolated ==
    [][\A w \in Workers :
         /\ (/\ loc[w].pc \in {"ev_daily", "gc_daily"}
             /\ faults' = faults + 1
             /\ loc'[w] # loc[w])
            => /\ db' = db
               /\ loc'[w] = [loc[w] EXCEPT
                    !.pc = IF loc[w].pc = "ev_daily" THEN "ev_event" ELSE "gc_log"]
         /\ (Ended(w) /\ LastResult(w) = "returned" /\ FaultsDuring(w) > 0)'
            => EffectsBarFailedTouches(w)']_vars

\* A conversion with two attributions is over and has returned: the daily-stat
\* touch of the first failed, and both attributions have their rows and increments.
C14_Witness ==
    \E w \in Workers :
        /\ Ended(w)
        /\ LastResult(w) = "returned"
        /\ FaultsDuring(w) = 1
        /\ IsAttributedConversion(Evt(w))
        /\ Len(db.goalConversion) = 2
        /\ Len(db.liveLog) = 2
        /\ db.experiment["e1"].totalConversions = 2
        /\ DailyTotal(db, "e1", "conversions") = 1

\* ---- C15
\* The VariantAssignment rows of the store that point to the variant.
AssignedTo(d, variantId) ==
    Cardinality({i \in 1..Len(d.variantAssignment) :
                    d.variantAssignment[i].variantId = variantId})

\* C15: no step of any worker changes or removes a VariantAssignment row that
\* exists, and the visitors of a variant never exceed the assignments that point to
\* it: a view of a pair already assigned to another variant neither moves the
\* assignment nor counts for the variant it carries.
C15_AssignmentNeverChanges ==
    [][/\ Len(db'.variantAssignment) >= Len(db.variantAssignment)
       /\ \A i \in 1..Len(db.variantAssignment) :
            db'.variantAssignment[i] = db.variantAssignment[i]
       /\ \A v \in VariantIds : db'.variant[v].visitors <= AssignedTo(db', v)]_vars

\* A view carrying variant B is over for a pair assigned to variant A: the
\* assignment still points to A and the visitors of B are 0.
C15_Witness ==
    \E w \in Workers :
        /\ Ended(w)
        /\ IsTrackedView(Evt(w))
        /\ Evt(w).variantId = "B"
        /\ LastResult(w) = "returned"
        /\ Len(db.variantAssignment) = 1
        /\ db.variantAssignment[1].variantId = "A"
        /\ db.variant["A"].visitors = 1
        /\ db.variant["B"].visitors = 0
        /\ Len(db.event) = 2

\* ---- C16
\* C16 as claimed: whatever the events and whatever the values the conversions
\* carry, no step lowers visitCount or pageViews of a Visitor, visitors or
\* conversions of a Variant, totalVisitors or totalConversions of an Experiment, or
\* impressions, conversions or revenue of an ExperimentDailyStat row.
C16_CountersNeverDecrease ==
    [][/\ \A i \in 1..Len(db.visitor) :
            /\ db'.visitor[i].visitCount >= db.visitor[i].visitCount
            /\ db'.visitor[i].pageViews >= db.visitor[i].pageViews
       /\ \A v \in VariantIds :
            /\ db'.variant[v].visitors >= db.variant[v].visitors
            /\ db'.variant[v].conversions >= db.variant[v].conversions
       /\ \A e \in ExperimentIds :
            /\ db'.experiment[e].totalVisitors >= db.experiment[e].totalVisitors
            /\ db'.experiment[e].totalConversions >= db.experiment[e].totalConversions
       /\ \A i \in 1..Len(db.experimentDailyStat) :
            /\ db'.experimentDailyStat[i].impressions >= db.experimentDailyStat[i].impressions
            /\ db'.experimentDailyStat[i].conversions >= db.experimentDailyStat[i].conversions
            /\ db'.experimentDailyStat[i].revenue >= db.experimentDailyStat[i].revenue]_vars

\* ---- C17
\* C17: the events of a record are processed one at a time, in the order of the
\* decoded payload.  While a worker is at a record, the i-th event it has begun is
\* the i-th of the payload; the events before it are all over and no other is in
\* flight; what the worker writes is written for that event (the Visitor row it
\* upserted carries the instant of the i-th event); and the store held the whole of
\* what a view before it had written (its assignment, its counters, its Event row
\* and its LiveLog row) when the i-th event was begun.
C17_EventsOfARecordInOrder ==
    \A w \in Workers :
        (loc[w].pc \notin {"loop", "done"}) =>
            LET val == records[w][Len(records[w])].data.val
                i == loc[w].ei
                pc == loc[w].pc
            IN  /\ loc[w].events = val
                /\ i <= Len(val)
                /\ Len(loc[w].results) = (IF pc = "events" THEN i ELSE i - 1)
                /\ (i >= 1 /\ pc \notin {"events", "upsertVisitor"}) =>
                        db.visitor[loc[w].visitor].lastSeen = ToInstant(val[i].timestamp)
                /\ (i >= 2 /\ faults = 0 /\ IsTrackedView(val[i - 1])) =>
                        LET b == Before(w)
                            e == val[i - 1]
                        IN  /\ loc[w].results[i - 1] = "returned"
                            /\ AssignmentExists(b, VisitorId(b, e.projectId, e.visitorId),
                                                e.experimentId)
                            /\ b.variant[e.variantId].visitors = AssignedTo(b, e.variantId)
                            /\ b.experiment[e.experimentId].totalVisitors =
                                    Len(b.variantAssignment)
                            /\ Len(b.event) >= 1
                            /\ b.event[Len(b.event)].eventType = "EXPERIMENT_VIEW"
                            /\ b.event[Len(b.event)].variantId = e.variantId
                            /\ Len(b.liveLog) >= 1
                            /\ b.liveLog[Len(b.liveLog)].logType = "VISITOR_ASSIGNED"
                            /\ b.liveLog[Len(b.liveLog)].variantId = e.variantId

\* A record holds a view and then a conversion: the first conversion row is
\* written, and the assignment, the counters and the rows of the view are there.
C17_Witness ==
    \E w \in Workers :
        /\ loc[w].pc = "gc_variant"
        /\ loc[w].ei = 2
        /\ IsTrackedView(loc[w].events[1])
        /\ loc[w].results = <<"returned">>
        /\ Len(db.goalConversion) = 1
        /\ Len(db.variantAssignment) = 1
        /\ db.experiment["e1"].totalVisitors = 1
        /\ Len(db.liveLog) = 1

\* ---- C18
\* C18 as claimed: a user agent string that contains both "Chrome" and "Edg" is
\* classified "edge", whatever else it contains.
C18_ChromeAndEdgIsEdge ==
    (/\ browser # Null
     /\ Includes(userAgent, "Chrome")
     /\ Includes(userAgent, "Edg"))
    => browser = "edge"

\* ---- C19
\* The events that the workers were handed: worker, record and position.
EventSlots ==
    UNION {UNION {{<<w, r, i>> : i \in 1..Len(records[w][r].data.val)} :
                    r \in 1..Len(records[w])} : w \in Workers}

EventAt(s) == records[s[1]][s[2]].data.val[s[3]]

\* The attributions of the conversions that the workers were handed.
AttributionSlots ==
    UNION {{<<s, j>> : j \in 1..Len(EventAt(s).attributedExperiments[1])} :
                s \in {x \in EventSlots : IsAttributedConversion(EventAt(x))}}

AttributionAt(a) == EventAt(a[1]).attributedExperiments[1][a[2]]

\* The sum of the values of the conversions of a set of attributions.
RECURSIVE ValueSum(_)
ValueSum(S) ==
    IF S = {} THEN 0
    ELSE LET a == CHOOSE x \in S : TRUE
             value == EventAt(a[1]).value
         IN  (IF value = None THEN 0 ELSE value[1]) + ValueSum(S \ {a})

\* C19: when all workers have returned and no storage operation has failed, every
\* counter holds one increment per operation issued for it, whatever the
\* interleaving: pageViews of a visitor count the events of its key, visitCount the
\* session starts and the creation, conversions and totalConversions the
\* attributions naming the variant and the experiment, the daily conversions and
\* revenue of an experiment the attributions and their values, and visitors,
\* totalVisitors and daily impressions the assignments made.
C19_NoIncrementLost ==
    ((\A w \in Workers : loc[w].pc = "done") /\ faults = 0) =>
        LET valid == {s \in EventSlots : ~LacksRequiredField(EventAt(s))}
        IN  /\ \A i \in 1..Len(db.visitor) :
                LET own == {s \in valid :
                                /\ EventAt(s).projectId = db.visitor[i].projectId
                                /\ EventAt(s).visitorId = db.visitor[i].visitorId}
                IN  /\ db.visitor[i].pageViews = Cardinality(own)
                    /\ db.visitor[i].visitCount = 1 + Cardinality(
                            {s \in own : EventAt(s).eventType = "SESSION_START"})
            /\ (valid # {}) => Len(db.visitor) >= 1
            /\ \A v \in VariantIds :
                /\ db.variant[v].conversions = Cardinality(
                        {a \in AttributionSlots : AttributionAt(a).variantId = v})
                /\ db.variant[v].visitors = AssignedTo(db, v)
            /\ \A e \in ExperimentIds :
                LET named == {a \in AttributionSlots : AttributionAt(a).experimentId = e}
                IN  /\ db.experiment[e].totalConversions = Cardinality(named)
                    /\ DailyTotal(db, e, "conversions") = Cardinality(named)
                    /\ DailyTotal(db, e, "revenue") = ValueSum(named)
                    /\ db.experiment[e].totalVisitors = Len(db.variantAssignment)
                    /\ DailyTotal(db, e, "impressions") = Len(db.variantAssignment)

\* Two workers have each processed a conversion of the same visitor for variant A,
\* both having begun before either had incremented a counter: every counter holds
\* both increments.
C19_Witness ==
    /\ \A w \in Workers :
        /\ loc[w].pc = "done"
        /\ Len(records[w]) = 1
        /\ snap[w].db.variant["A"].conversions = 0
        /\ snap[w].db.experimentDailyStat = <<>>
    /\ faults = 0
    /\ db.variant["A"].conversions = 2
    /\ db.experiment["e1"].totalConversions = 2
    /\ DailyTotal(db, "e1", "conversions") = 2
    /\ DailyTotal(db, "e1", "revenue") = 6
    /\ db.visitor[1].pageViews = 2

\* ---- C20
\* C20: no step of any worker changes or removes an Event row: the table only
\* grows at its end, by at most one row a step, and every row it holds stays as it
\* is.
C20_EventRowsAppendOnly ==
    [][/\ Len(db'.event) \in {Len(db.event), Len(db.event) + 1}
       /\ \A i \in 1..Len(db.event) : db'.event[i] = db.event[i]]_vars

\* The store holds the Event rows of two events of different kinds, the first as
\* it was written.
C20_Witness ==
    /\ Len(db.event) = 2
    /\ db.event[1].eventType = "EXPERIMENT_VIEW"
    /\ db.event[2].eventType = "CUSTOM"
    /\ \E w \in Workers : Ended(w) /\ Before(w).event = <<db.event[1]>>

\* ---- C21
\* The positions of a worker inside each of the five handlers.
HandlerSteps ==
    [handleSessionStart |-> {"ss_visit", "ss_event"},
     handleExperimentView |-> {"ev_find", "ev_assign", "ev_variant", "ev_experiment",
                               "ev_daily", "ev_event", "ev_log"},
     handleGoalConversion |-> {"gc_conversion", "gc_variant", "gc_experiment",
                               "gc_goal", "gc_daily", "gc_log"},
     handleCustomEvent |-> {"ce_event"},
     handleGenericEvent |-> {"ge_event"}]

\* The handler that the type of an event selects.
HandlerFor(eventType) ==
    CASE eventType = "SESSION_START" -> "handleSessionStart"
      [] eventType = "EXPERIMENT_VIEW" -> "handleExperimentView"
      [] eventType = "GOAL_CONVERSION" -> "handleGoalConversion"
      [] eventType = "CUSTOM_EVENT" -> "handleCustomEvent"
      [] OTHER -> "handleGenericEvent"

\* C21: a worker that is inside a handler is inside the one that the type of its
\* event selects, the Visitor row of the event having been upserted exactly once
\* before; and an event of a type that no case names, processed without a storage
\* failure, has appended exactly one Event row, tagged with the type of the event,
\* and has changed no other table but Visitor.
C21_OneHandlerPerEventType ==
    \A w \in Workers :
        LET evt == loc[w].events[loc[w].ei]
            b == Before(w)
            upserted == Upserted(b.visitor, evt)
        IN  /\ \A h \in DOMAIN HandlerSteps :
                loc[w].pc \in HandlerSteps[h] =>
                    /\ ~LacksRequiredField(evt)
                    /\ h = HandlerFor(evt.eventType)
                    /\ \/ db.visitor = upserted
                       \/ /\ h = "handleSessionStart"
                          /\ loc[w].pc = "ss_event"
                          /\ db.visitor =
                                [upserted EXCEPT ![loc[w].visitor].visitCount = @ + 1]
            /\ (/\ Ended(w)
                /\ NoFaultDuring(w)
                /\ ~LacksRequiredField(evt)
                /\ HandlerFor(evt.eventType) = "handleGenericEvent")
               => /\ LastResult(w) = "returned"
                  /\ db.visitor = upserted
                  /\ Appended(b.event, db.event, 1)
                  /\ db.event[Len(db.event)] =
                        [projectId |-> evt.projectId, visitorId |-> loc[w].visitor,
                         experimentId |-> Null, variantId |-> Null,
                         eventType |-> evt.eventType]
                  /\ \A t \in Tables \ {"visitor", "event"} : db[t] = b[t]

\* An event of type CLICK is over, after a view that had written an assignment,
\* counters and a LiveLog row: the store holds one more Event row, tagged CLICK.
C21_Witness ==
    \E w \in Workers :
        /\ Ended(w)
        /\ NoFaultDuring(w)
        /\ Evt(w).eventType = "CLICK"
        /\ LastResult(w) = "returned"
        /\ Len(db.event) = 2
        /\ db.event[2].eventType = "CLICK"
        /\ Len(db.variantAssignment) = 1
        /\ Len(db.liveLog) = 1
        /\ db.visitor[1].pageViews = 2

\* ---- C22
\* C22 as claimed: no two ExperimentDailyStat rows share an (experimentId, date)
\* key; a touch that finds no row of its key adds one, with the counter touched at
\* 1, the other at 0 and the revenue at the value of the conversion (0 when there
\* is none); a touch that finds the row adds exactly 1 to the counter touched,
\* leaves the other counter as it is, and adds the value to the revenue only when
\* the touch is a conversion that carries a positive value.
C22_DailyStatTouch ==
    [][/\ \A i, j \in 1..Len(db'.experimentDailyStat) :
            (/\ db'.experimentDailyStat[i].experimentId = db'.experimentDailyStat[j].experimentId
             /\ db'.experimentDailyStat[i].date = db'.experimentDailyStat[j].date)
            => i = j
       /\ \A w \in Workers :
            (/\ loc[w].pc \in {"ev_daily", "gc_daily"}
             /\ loc'[w] # loc[w]
             /\ faults' = faults)
            => LET view == loc[w].pc = "ev_daily"
                   field == IF view THEN "impressions" ELSE "conversions"
                   other == IF view THEN "conversions" ELSE "impressions"
                   e == IF view THEN Evt(w).experimentId ELSE Exp(w).experimentId
                   value == IF view THEN None ELSE Evt(w).value
                   old == db.experimentDailyStat
                   new == db'.experimentDailyStat
               IN  \/ /\ Appended(old, new, 1)
                      /\ new[Len(new)].experimentId = e
                      /\ new[Len(new)][field] = 1
                      /\ new[Len(new)][other] = 0
                      /\ new[Len(new)].revenue = (IF value = None THEN 0 ELSE value[1])
                   \/ /\ Len(new) = Len(old)
                      /\ \E i \in 1..Len(old) :
                            /\ old[i].experimentId = e
                            /\ \A j \in 1..Len(old) : j # i => new[j] = old[j]
                            /\ new[i].experimentId = e
                            /\ new[i].date = old[i].date
                            /\ new[i][field] = old[i][field] + 1
                            /\ new[i][other] = old[i][other]
                            /\ new[i].revenue = old[i].revenue +
                                (IF ~view /\ value # None /\ value[1] > 0
                                 THEN value[1] ELSE 0)]_vars

\* ---- C23
\* Worker w has processed, to its end and with no storage failure in the whole
\* behaviour, the one event of a record whose body is the body of the record
\* before it: the record was delivered twice, and applied in full the first time.
ReplayedRecordOver(w) ==
    /\ Len(records[w]) >= 2
    /\ records[w][Len(records[w])].data = records[w][Len(records[w]) - 1].data
    /\ Len(records[w][Len(records[w])].data.val) = 1
    /\ ~LacksRequiredField(records[w][Len(records[w])].data.val[1])
    /\ loc[w].pc \in {"events", "loop", "done"}
    /\ Len(loc[w].results) = 1
    /\ faults = 0

\* C23: the second delivery of a record leaves the assignments, the visitors of the
\* variants, the totalVisitors of the experiments and the daily impressions as the
\* first delivery left them; a view appends a second Event row and a second LiveLog
\* row equal to the first ones, and a conversion appends its conversion rows and
\* LiveLog rows again and adds to the conversion counters again.
C23_ReplayDuplicatesAllButAssignment ==
    \A w \in Workers :
        ReplayedRecordOver(w) =>
            LET evt == records[w][Len(records[w])].data.val[1]
                b == Before(w)
            IN  /\ db.variantAssignment = b.variantAssignment
                /\ \A v \in VariantIds : db.variant[v].visitors = b.variant[v].visitors
                /\ \A e \in ExperimentIds :
                    /\ db.experiment[e].totalVisitors = b.experiment[e].totalVisitors
                    /\ DailyTotal(db, e, "impressions") = DailyTotal(b, e, "impressions")
                /\ IsTrackedView(evt) =>
                    /\ Len(b.event) >= 1
                    /\ db.event = Append(b.event, b.event[Len(b.event)])
                    /\ Len(b.liveLog) >= 1
                    /\ db.liveLog = Append(b.liveLog, b.liveLog[Len(b.liveLog)])
                /\ IsAttributedConversion(evt) =>
                    LET a == evt.attributedExperiments[1]
                        k == Len(a)
                    IN  /\ Len(b.goalConversion) >= k
                        /\ Len(db.goalConversion) = Len(b.goalConversion) + k
                        /\ \A i \in 1..k :
                            db.goalConversion[Len(b.goalConversion) + i] =
                                b.goalConversion[Len(b.goalConversion) - k + i]
                        /\ Len(db.liveLog) = Len(b.liveLog) + k
                        /\ \A v \in VariantIds :
                            db.variant[v].conversions = b.variant[v].conversions
                                + Cardinality({i \in 1..k : a[i].variantId = v})
                        /\ \A e \in ExperimentIds :
                            LET named == Cardinality({i \in 1..k : a[i].experimentId = e})
                            IN  /\ db.experiment[e].totalConversions =
                                        b.experiment[e].totalConversions + named
                                /\ DailyTotal(db, e, "conversions") =
                                        DailyTotal(b, e, "conversions") + named

\* A record holding one view was delivered twice and processed twice: one
\* assignment, one visitor counted, one impression, two Event rows, two LiveLog rows.
C23_Witness ==
    \E w \in Workers :
        /\ ReplayedRecordOver(w)
        /\ IsTrackedView(records[w][2].data.val[1])
        /\ Len(db.variantAssignment) = 1
        /\ db.experiment["e1"].totalVisitors = 1
        /\ DailyTotal(db, "e1", "impressions") = 1
        /\ Len(db.event) = 2
        /\ Len(db.liveLog) = 2

\* ---- C24
\* C24 as amended: the outcome of a record is "Ok" exactly when its own body decodes and
\* "ProcessingFailed" otherwise, whatever the records before it were and whatever
\* storage failures their events or its own events met; no record stops the batch,
\* every record of which is read and answered; every event of a record that
\* decodes is begun and brought to an end; and an event that meets no storage
\* failure has the whole of the effects of its kind on the store as the records
\* and events before it left it.
C24_RecordsIndependent ==
    \A w \in Workers :
        /\ \A i \in 1..Len(output[w]) :
            /\ output[w][i].data = records[w][i].data
            /\ output[w][i].result =
                    (IF records[w][i].data.kind = "garbage"
                     THEN "ProcessingFailed" ELSE "Ok")
        /\ loc[w].pc = "done" => Len(output[w]) = batchLen[w]
        /\ (/\ Len(records[w]) >= 1
            /\ Len(output[w]) = Len(records[w])
            /\ records[w][Len(records[w])].data.kind # "garbage")
           => Len(loc[w].results) = Len(records[w][Len(records[w])].data.val)
        /\ (Ended(w) /\ NoFaultDuring(w)) =>
            /\ LastResult(w) \in {"returned", "dropped"}
            /\ FullEffects(w)

\* C24 as claimed: the outcome of a record is "Ok" exactly when its body decodes,
\* and what a record writes depends on its body alone: a view with experimentId
\* and variantId at the head of a later record of the batch, processed without a storage
\* failure, writes what the same view writes to a store that no record has written
\* to (the assignment, 1 more visitor of the variant and of the experiment, an
\* Event row and a LiveLog row), whatever the records before it were.
C24_EffectsDependOnlyOnBody ==
    \A w \in Workers :
        /\ \A i \in 1..Len(output[w]) :
            output[w][i].result =
                (IF records[w][i].data.kind = "garbage" THEN "ProcessingFailed" ELSE "Ok")
        /\ (/\ Len(records[w]) >= 2
            /\ loc[w].ei = 1
            /\ Ended(w)
            /\ NoFaultDuring(w)
            /\ IsTrackedView(loc[w].events[loc[w].ei]))
           => LET evt == loc[w].events[loc[w].ei]
                  b == Before(w)
              IN  /\ Appended(b.variantAssignment, db.variantAssignment, 1)
                  /\ db.variant = [b.variant EXCEPT ![evt.variantId].visitors = @ + 1]
                  /\ db.experiment =
                        [b.experiment EXCEPT ![evt.experimentId].totalVisitors = @ + 1]
                  /\ Appended(b.event, db.event, 1)
                  /\ Appended(b.liveLog, db.liveLog, 1)

\* A batch of two records is answered: the one event of the first met a storage
\* failure, and the record is "Ok"; the second, a view, was processed in full.
C24_Witness ==
    \E w \in Workers :
        /\ loc[w].pc = "done"
        /\ Len(records[w]) = 2
        /\ Len(records[w][1].data.val) = 1
        /\ faults = 1
        /\ snap[w].faults = 1
        /\ output[w][1].result = "Ok"
        /\ output[w][2].result = "Ok"
        /\ IsTrackedView(records[w][2].data.val[1])
        /\ loc[w].results = <<"returned">>
        /\ Len(db.liveLog) = 1

\* ---- C25
\* The events that the workers have processed to their end.
ProcessedSlots ==
    {s \in EventSlots :
        \/ s[2] < Len(records[s[1]])
        \/ loc[s[1]].pc \in {"loop", "done"}
        \/ s[3] <= loc[s[1]].ei}

\* C25: when no event is in flight and no storage operation has failed, the
\* pageViews of every Visitor row count the valid events processed for its key, its
\* visitCount is 1 plus the SESSION_START events among them, so that a visitor
\* whose first event is a SESSION_START has visitCount 2 after it, and the Event
\* table holds one PAGE_VIEW row per SESSION_START processed.
C25_VisitorCountersCountEvents ==
    (NoEventInFlight /\ faults = 0) =>
        LET valid == {s \in ProcessedSlots : ~LacksRequiredField(EventAt(s))}
            starts == {s \in valid : EventAt(s).eventType = "SESSION_START"}
        IN  /\ \A i \in 1..Len(db.visitor) :
                LET Own(s) == /\ EventAt(s).projectId = db.visitor[i].projectId
                              /\ EventAt(s).visitorId = db.visitor[i].visitorId
                IN  /\ db.visitor[i].pageViews = Cardinality({s \in valid : Own(s)})
                    /\ db.visitor[i].visitCount =
                            1 + Cardinality({s \in starts : Own(s)})
            /\ \A s \in valid :
                VisitorId(db, EventAt(s).projectId, EventAt(s).visitorId) # 0
            /\ Cardinality({i \in 1..Len(db.event) : db.event[i].eventType = "PAGE_VIEW"})
                    = Cardinality(starts)

\* The first event of a visitor, a SESSION_START, is over: the row has visitCount 2
\* and pageViews 1, and the Event table holds its PAGE_VIEW row.
C25_Witness ==
    /\ NoEventInFlight
    /\ faults = 0
    /\ \E w \in Workers :
        /\ Ended(w)
        /\ Evt(w).eventType = "SESSION_START"
        /\ Before(w).visitor = <<>>
    /\ Len(db.visitor) = 1
    /\ db.visitor[1].visitCount = 2
    /\ db.visitor[1].pageViews = 1
    /\ Len(db.event) = 1
    /\ db.event[1].eventType = "PAGE_VIEW"

\* ---- C26
\* C26 as claimed: whenever no event is in flight, storage failures and
\* redeliveries included, the visitors of every variant are as many as the
\* VariantAssignment rows that point to it and the totalVisitors of every
\* experiment as many as the VariantAssignment rows of the experiment.
C26_VisitorsMatchAssignments ==
    NoEventInFlight =>
        /\ \A v \in VariantIds : db.variant[v].visitors = AssignedTo(db, v)
        /\ \A e \in ExperimentIds :
            db.experiment[e].totalVisitors =
                Cardinality({i \in 1..Len(db.variantAssignment) :
                                db.variantAssignment[i].experimentId = e})

\* ---- C27
\* An EXPERIMENT_VIEW with its required fields and without experimentId or
\* without variantId.
IsUntrackedView(evt) ==
    /\ ~LacksRequiredField(evt)
    /\ evt.eventType = "EXPERIMENT_VIEW"
    /\ (evt.experimentId = Null \/ evt.variantId = Null)

\* C27: when an EXPERIMENT_VIEW without experimentId or without variantId is over,
\* every table but Visitor is as it was when the event was begun: no assignment, no
\* variant, experiment or daily counter, no Event row and no LiveLog row; the
\* Visitor table is the one the upsert of the event makes of it, or the one the
\* event found when the upsert itself was rejected by the store.
C27_UntrackedViewOnlyUpserts ==
    \A w \in Workers :
        (Ended(w) /\ IsUntrackedView(Evt(w))) =>
            /\ Untouched(w, Tables \ {"visitor"})
            /\ IF LastResult(w) = "returned"
               THEN db.visitor = Upserted(Before(w).visitor, Evt(w))
               ELSE db.visitor = Before(w).visitor

\* A view without experimentId has returned after creating the Visitor row, and in
\* an earlier record a view without variantId did the same for a row that existed.
C27_Witness ==
    \E w \in Workers :
        /\ Ended(w)
        /\ IsUntrackedView(Evt(w))
        /\ Evt(w).experimentId = Null
        /\ LastResult(w) = "returned"
        /\ Before(w).visitor # <<>>
        /\ db.visitor # Before(w).visitor
        /\ Len(records[w]) >= 2
        /\ records[w][1].data.kind # "garbage"
        /\ Len(records[w][1].data.val) >= 1
        /\ IsUntrackedView(records[w][1].data.val[1])
        /\ records[w][1].data.val[1].variantId = Null
        /\ db.event = <<>>
        /\ db.liveLog = <<>>

====
